---- MODULE Spec2Model ----
(***************************************************************************)
(* Iceberg -> SQL Server ingestion script (src/iceberg_to_sqlserver.py).   *)
(*                                                                         *)
(* Two parts:                                                              *)
(*   - the type mapper arrow_type_to_sql, a pure function over type        *)
(*     strings, which are modelled as sequences of one-character strings   *)
(*     so that startswith / "in" / re.search are computed, not assumed;    *)
(*   - the pipeline run(): source read, connect, create_table_if_needed,   *)
(*     ingest_data, close, one step per call on the source or on the       *)
(*     destination connection, each of which may raise.                    *)
(*                                                                         *)
(* The destination is a pymssql connection with autocommit off (the code   *)
(* calls conn.commit() itself): statements act on the connection's open    *)
(* transaction (tx), conn.commit() makes it durable (db), and closing the  *)
(* connection discards what was not committed.                             *)
(***************************************************************************)
EXTENDS Integers, Sequences, FiniteSets, TLC

VARIABLES
    pc,           \* position of run() / of the type-mapper harness
    runs,         \* number of run() invocations started so far
    config,       \* the configuration and source content of the current run
    arrow_table,  \* scan.to_arrow(): [schema, rows]
    conn,         \* "none" | "open" | "closed"
    db,           \* committed state of the destination relation
    tx,           \* state seen by the open connection's transaction
    i,            \* ingest_data: loop variable of range(0, len(rows), batch_size)
    inserted,     \* ingest_data: rows-sent counter
    err,          \* an exception is propagating out of the try block
    log,          \* calls issued on the connection in the current run
    ct,           \* what create_table_if_needed did in the current run
    prev,         \* ct of the previous run
    arrow_type,   \* type mapper: the input type string
    sql_type      \* type mapper: the result

vars == <<pc, runs, config, arrow_table, conn, db, tx, i, inserted, err, log,
          ct, prev, arrow_type, sql_type>>

----------------------------------------------------------------------------
(* Bounds *)

MaxRows == 3
MaxBatch == 3
MaxNegBatch == 1
MaxRuns == 2

----------------------------------------------------------------------------
(* Strings as sequences of characters *)

Min(S) == CHOOSE x \in S : \A y \in S : x <= y

UpperChars == <<"A","B","C","D","E","F","G","H","I","J","K","L","M",
                "N","O","P","Q","R","S","T","U","V","W","X","Y","Z">>
LowerChars == <<"a","b","c","d","e","f","g","h","i","j","k","l","m",
                "n","o","p","q","r","s","t","u","v","w","x","y","z">>
Digits == {"0","1","2","3","4","5","6","7","8","9"}
Spaces == {" ", "\t"}

LowerChar(c) ==
    IF \E k \in 1..Len(UpperChars) : UpperChars[k] = c
    THEN LowerChars[CHOOSE k \in 1..Len(UpperChars) : UpperChars[k] = c]
    ELSE c

\* str.lower()
Lower(s) == [k \in 1..Len(s) |-> LowerChar(s[k])]

\* str.startswith(p)
StartsWith(s, p) == Len(p) <= Len(s) /\ SubSeq(s, 1, Len(p)) = p

\* s[at:].startswith(p), at 1-based
MatchAt(s, at, p) ==
    at + Len(p) - 1 <= Len(s) /\ SubSeq(s, at, at + Len(p) - 1) = p

\* p in s
Contains(s, p) == \E at \in 1..(Len(s) + 1) : MatchAt(s, at, p)

\* first position >= at whose character is not in cs (Len(s)+1 if none):
\* where a greedy \d* or \s* starting at `at` stops
SkipWhile(s, at, cs) ==
    Min({k \in at..(Len(s) + 1) : k = Len(s) + 1 \/ s[k] \notin cs})

CharAt(s, k) == IF k \in 1..Len(s) THEN s[k] ELSE ""

----------------------------------------------------------------------------
(* Type mapper *)

\* a SQL Server column type: f"{name}" or f"{name}({params[1]}, {params[2]})"
Sql(name) == [name |-> name, params |-> <<>>]
SqlDecimal(p, s) == [name |-> "DECIMAL", params |-> <<p, s>>]

ICEBERG_TO_SQL_TYPE_MAP ==
    <<
      [key |-> <<"b","o","o","l">>, sql |-> "BIT"],  \* bool
      [key |-> <<"i","n","t","8">>, sql |-> "TINYINT"],  \* int8
      [key |-> <<"i","n","t","1","6">>, sql |-> "SMALLINT"],  \* int16
      [key |-> <<"i","n","t","3","2">>, sql |-> "INT"],  \* int32
      [key |-> <<"i","n","t","6","4">>, sql |-> "BIGINT"],  \* int64
      [key |-> <<"u","i","n","t","8">>, sql |-> "SMALLINT"],  \* uint8
      [key |-> <<"u","i","n","t","1","6">>, sql |-> "INT"],  \* uint16
      [key |-> <<"u","i","n","t","3","2">>, sql |-> "BIGINT"],  \* uint32
      [key |-> <<"u","i","n","t","6","4">>, sql |-> "BIGINT"],  \* uint64
      [key |-> <<"f","l","o","a","t","1","6">>, sql |-> "REAL"],  \* float16
      [key |-> <<"f","l","o","a","t","3","2">>, sql |-> "REAL"],  \* float32
      [key |-> <<"f","l","o","a","t">>, sql |-> "REAL"],  \* float
      [key |-> <<"f","l","o","a","t","6","4">>, sql |-> "FLOAT"],  \* float64
      [key |-> <<"d","o","u","b","l","e">>, sql |-> "FLOAT"],  \* double
      [key |-> <<"d","e","c","i","m","a","l","1","2","8">>, sql |-> "DECIMAL"],  \* decimal128
      [key |-> <<"d","a","t","e","3","2">>, sql |-> "DATE"],  \* date32
      [key |-> <<"d","a","t","e","6","4">>, sql |-> "DATE"],  \* date64
      [key |-> <<"t","i","m","e","s","t","a","m","p">>, sql |-> "DATETIME2"],  \* timestamp
      [key |-> <<"t","i","m","e","3","2">>, sql |-> "TIME"],  \* time32
      [key |-> <<"t","i","m","e","6","4">>, sql |-> "TIME"],  \* time64
      [key |-> <<"s","t","r","i","n","g">>, sql |-> "NVARCHAR(MAX)"],  \* string
      [key |-> <<"l","a","r","g","e","_","s","t","r","i","n","g">>, sql |-> "NVARCHAR(MAX)"],  \* large_string
      [key |-> <<"u","t","f","8">>, sql |-> "NVARCHAR(MAX)"],  \* utf8
      [key |-> <<"l","a","r","g","e","_","u","t","f","8">>, sql |-> "NVARCHAR(MAX)"],  \* large_utf8
      [key |-> <<"b","i","n","a","r","y">>, sql |-> "VARBINARY(MAX)"],  \* binary
      [key |-> <<"l","a","r","g","e","_","b","i","n","a","r","y">>, sql |-> "VARBINARY(MAX)"],  \* large_binary
      [key |-> <<"f","i","x","e","d","_","s","i","z","e","_","b","i","n","a","r","y">>, sql |-> "VARBINARY(MAX)"]  \* fixed_size_binary
    >>

S_decimal == <<"d","e","c","i","m","a","l">>
S_timestamp == <<"t","i","m","e","s","t","a","m","p">>
S_date == <<"d","a","t","e">>
S_time == <<"t","i","m","e">>
S_list == <<"l","i","s","t">>
S_struct == <<"s","t","r","u","c","t">>
S_map == <<"m","a","p">>

\* re.match of  decimal\d*\((\d+),\s*(\d+)\)  at position `at`: the positions
\* where each greedy run stops.  A digit run is followed by a non-digit in the
\* pattern, so the greedy match is the only one.
DecParenAt(s, at) == SkipWhile(s, at + Len(S_decimal), Digits)
DecCommaAt(s, at) == SkipWhile(s, DecParenAt(s, at) + 1, Digits)
DecScaleAt(s, at) == SkipWhile(s, DecCommaAt(s, at) + 1, Spaces)
DecCloseAt(s, at) == SkipWhile(s, DecScaleAt(s, at), Digits)

DecimalMatchAt(s, at) ==
    /\ MatchAt(s, at, S_decimal)
    /\ CharAt(s, DecParenAt(s, at)) = "("
    /\ DecCommaAt(s, at) > DecParenAt(s, at) + 1
    /\ CharAt(s, DecCommaAt(s, at)) = ","
    /\ DecCloseAt(s, at) > DecScaleAt(s, at)
    /\ CharAt(s, DecCloseAt(s, at)) = ")"

\* re.search: the leftmost match, 0 when there is none
DecimalSearch(s) ==
    IF \E at \in 1..Len(s) : DecimalMatchAt(s, at)
    THEN Min({at \in 1..Len(s) : DecimalMatchAt(s, at)})
    ELSE 0

DecimalGroup1(s, at) == SubSeq(s, DecParenAt(s, at) + 1, DecCommaAt(s, at) - 1)
DecimalGroup2(s, at) == SubSeq(s, DecScaleAt(s, at), DecCloseAt(s, at) - 1)

\* for key, sql_type in ICEBERG_TO_SQL_TYPE_MAP.items(): if key in type_str
\* 0 when no key is a substring, else the index of the first such key
TableHit(type_str) ==
    IF \E k \in 1..Len(ICEBERG_TO_SQL_TYPE_MAP) :
            Contains(type_str, ICEBERG_TO_SQL_TYPE_MAP[k].key)
    THEN Min({k \in 1..Len(ICEBERG_TO_SQL_TYPE_MAP) :
                Contains(type_str, ICEBERG_TO_SQL_TYPE_MAP[k].key)})
    ELSE 0

\* the exits of arrow_type_to_sql that come before the table loop
BeforeTable(type_str) ==
    \/ StartsWith(type_str, S_decimal)
    \/ Contains(type_str, S_timestamp)
    \/ Contains(type_str, S_date)
    \/ Contains(type_str, S_time)
    \/ Contains(type_str, S_list)
    \/ Contains(type_str, S_struct)
    \/ Contains(type_str, S_map)

arrow_type_to_sql(a_type) ==
    LET type_str == Lower(a_type) IN
    IF StartsWith(type_str, S_decimal) THEN
        LET at == DecimalSearch(type_str) IN
        IF at # 0
        THEN SqlDecimal(DecimalGroup1(type_str, at), DecimalGroup2(type_str, at))
        ELSE SqlDecimal(<<"3","8">>, <<"1","8">>)
    ELSE IF Contains(type_str, S_timestamp) THEN Sql("DATETIME2")
    ELSE IF Contains(type_str, S_date) THEN Sql("DATE")
    ELSE IF Contains(type_str, S_time) THEN Sql("TIME")
    ELSE IF \/ Contains(type_str, S_list)
            \/ Contains(type_str, S_struct)
            \/ Contains(type_str, S_map) THEN Sql("NVARCHAR(MAX)")
    ELSE IF TableHit(type_str) # 0
         THEN Sql(ICEBERG_TO_SQL_TYPE_MAP[TableHit(type_str)].sql)
    ELSE Sql("NVARCHAR(MAX)")

----------------------------------------------------------------------------
(* Type strings the mapper is applied to *)

TableKeys == {ICEBERG_TO_SQL_TYPE_MAP[k].key : k \in 1..Len(ICEBERG_TO_SQL_TYPE_MAP)}

T_decimal_10_2 == <<"d","e","c","i","m","a","l","1","2","8","(","1","0",","," ","2",")">>
T_decimal256 == <<"d","e","c","i","m","a","l","2","5","6","(","4","0",",","0",")">>
T_decimal_open == <<"d","e","c","i","m","a","l","(","1","0",",","2">>
T_geometry == <<"g","e","o","m","e","t","r","y">>
T_timestamp_us == <<"t","i","m","e","s","t","a","m","p","[","u","s","]">>
T_date32_day == <<"d","a","t","e","3","2","[","d","a","y","]">>
T_time64_us == <<"t","i","m","e","6","4","[","u","s","]">>
T_halffloat == <<"h","a","l","f","f","l","o","a","t">>
T_INT32 == <<"I","N","T","3","2">>

ScalarTypes ==
    TableKeys \cup {T_decimal_10_2, T_decimal256, T_decimal_open, T_geometry,
                    T_timestamp_us, T_date32_day, T_time64_us, T_halffloat,
                    T_INT32}

\* list<E>, struct<d: E>, map<string, E>
ListOf(e) == <<"l","i","s","t","<">> \o e \o <<">">>
StructOf(e) == <<"s","t","r","u","c","t","<","d",":"," ">> \o e \o <<">">>
MapOf(e) == <<"m","a","p","<","s","t","r","i","n","g",","," ">> \o e \o <<">">>

NestedTypes ==
    {ListOf(e) : e \in ScalarTypes} \cup {StructOf(e) : e \in ScalarTypes}
        \cup {MapOf(e) : e \in ScalarTypes}

TypeStrings == ScalarTypes \cup NestedTypes

NoType == Sql("")

----------------------------------------------------------------------------
(* Source content and configuration *)

K_int32 == <<"i","n","t","3","2">>
K_int64 == <<"i","n","t","6","4">>

SchemaA ==
    << [name |-> "id", type |-> K_int32, nullable |-> FALSE],
       [name |-> "amount", type |-> T_decimal_10_2, nullable |-> TRUE] >>
SchemaB ==
    << [name |-> "id", type |-> K_int64, nullable |-> TRUE] >>
Schemas == {SchemaA, SchemaB}

BatchSizes == (0 - MaxNegBatch)..MaxBatch

Configs ==
    [num_rows : 0..MaxRows, schema : Schemas, drop_existing : BOOLEAN,
     batch_size : BatchSizes]

NoConfig ==
    [num_rows |-> 0, schema |-> <<>>, drop_existing |-> FALSE, batch_size |-> 1]
NoTable == [schema |-> <<>>, rows |-> <<>>]

\* the destination relation [target_schema].[target_table]
Relation(schema_exists, table_exists, columns, rows) ==
    [schema_exists |-> schema_exists, table_exists |-> table_exists,
     columns |-> columns, rows |-> rows]

NoCt ==
    [ok |-> FALSE, drop_existing |-> FALSE, schema |-> <<>>,
     before |-> Relation(FALSE, FALSE, <<>>, <<>>),
     schema_created |-> FALSE, dropped |-> FALSE, created |-> FALSE]

\* one call on the connection
Call(op, rows, ok) == [op |-> op, rows |-> rows, ok |-> ok]

----------------------------------------------------------------------------
(* create_table_if_needed *)

\* columns.append(f"    [{field.name}] {sql_type} {nullable}")
Column(field) ==
    [name |-> field.name,
     sql_type |-> arrow_type_to_sql(field.type),
     nullable |-> IF field.nullable THEN "NULL" ELSE "NOT NULL"]

Columns(arrow_schema) ==
    [k \in 1..Len(arrow_schema) |-> Column(arrow_schema[k])]

\* IF NOT EXISTS (SELECT 1 FROM sys.schemas ...) EXEC('CREATE SCHEMA ...')
EnsureSchema(rel) == [rel EXCEPT !.schema_exists = TRUE]

\* as DropIfExists, the drop statement having no effect
DropIfExists_NoDrop(rel) == rel

\* IF OBJECT_ID(...) IS NOT NULL DROP TABLE ...
DropIfExists(rel) ==
    IF rel.table_exists
    THEN Relation(rel.schema_exists, FALSE, <<>>, <<>>)
    ELSE rel

\* as CreateIfNotExists, without the existence guard (CREATE OR REPLACE)
CreateIfNotExists_Unguarded(rel, arrow_schema) ==
    Relation(rel.schema_exists, TRUE, Columns(arrow_schema), <<>>)

\* IF NOT EXISTS (SELECT 1 FROM INFORMATION_SCHEMA.TABLES ...) CREATE TABLE ...
CreateIfNotExists(rel, arrow_schema) ==
    IF rel.table_exists
    THEN rel
    ELSE Relation(rel.schema_exists, TRUE, Columns(arrow_schema), <<>>)

----------------------------------------------------------------------------
(* ingest_data *)

\* as InRange, stopping before a last batch that is not full
InRange_FullOnly(idx, stop, step) ==
    IF step > 0 THEN idx + step <= stop ELSE idx > stop

\* i in range(0, stop, step), step # 0
InRange(idx, stop, step) == IF step > 0 THEN idx < stop ELSE idx > stop

\* as Slice, with the upper index one short: rows[lo : hi - 1]
Slice_OffByOne(rows, lo, hi) ==
    SubSeq(rows, lo + 1, IF hi - 1 < Len(rows) THEN hi - 1 ELSE Len(rows))

\* rows[lo : hi] for 0 <= lo <= hi
Slice(rows, lo, hi) ==
    SubSeq(rows, lo + 1, IF hi < Len(rows) THEN hi ELSE Len(rows))

\* batch = rows[i : i + batch_size]
Batch == Slice(arrow_table.rows, i, i + config.batch_size)

\* INSERT INTO t (cols) VALUES (...): the relation must exist and have the
\* columns named
Insertable(rel, arrow_schema) ==
    /\ rel.table_exists
    /\ \A k \in 1..Len(arrow_schema) :
          \E c \in 1..Len(rel.columns) : rel.columns[c].name = arrow_schema[k].name

InsertRows(rel, rows) == [rel EXCEPT !.rows = @ \o rows]

----------------------------------------------------------------------------
(* run(): one step per call on the source or on the connection *)

Init ==
    /\ pc = "START"
    /\ runs = 0
    /\ config = NoConfig
    /\ arrow_table = NoTable
    /\ conn = "none"
    /\ \E schema_exists \in BOOLEAN :
          db = Relation(schema_exists, FALSE, <<>>, <<>>)
    /\ tx = db
    /\ i = 0
    /\ inserted = 0
    /\ err = FALSE
    /\ log = <<>>
    /\ ct = NoCt
    /\ prev = NoCt
    /\ arrow_type = <<>>
    /\ sql_type = NoType

\* main() -> run(config): a new process, with its own configuration
Invoke ==
    /\ pc \in {"START", "DONE", "RAISED"}
    /\ runs < MaxRuns
    /\ runs' = runs + 1
    /\ \E c \in Configs : config' = c
    /\ arrow_table' = NoTable
    /\ conn' = "none"
    /\ tx' = db
    /\ i' = 0
    /\ inserted' = 0
    /\ err' = FALSE
    /\ log' = <<>>
    /\ prev' = ct
    /\ ct' = NoCt
    /\ pc' = "SOURCE_READ"
    /\ UNCHANGED <<db, arrow_type, sql_type>>

\* as SourceRead, without the empty-result return
SourceRead_NoShortCircuit ==
    /\ pc = "SOURCE_READ"
    /\ arrow_table' =
          [schema |-> config.schema,
           rows |-> [k \in 1..config.num_rows |-> <<runs, k>>]]
    /\ pc' = "CONNECT"
    /\ UNCHANGED <<runs, config, conn, db, tx, i, inserted, err, log, ct, prev,
                   arrow_type, sql_type>>

\* get_iceberg_table, scan, to_arrow; the empty-result return
SourceRead ==
    /\ pc = "SOURCE_READ"
    /\ arrow_table' =
          [schema |-> config.schema,
           rows |-> [k \in 1..config.num_rows |-> <<runs, k>>]]
    /\ pc' = IF config.num_rows = 0 THEN "DONE" ELSE "CONNECT"
    /\ UNCHANGED <<runs, config, conn, db, tx, i, inserted, err, log, ct, prev,
                   arrow_type, sql_type>>

\* the catalog, the table load or the scan raises
SourceReadFails ==
    /\ pc = "SOURCE_READ"
    /\ pc' = "RAISED"
    /\ UNCHANGED <<runs, config, arrow_table, conn, db, tx, i, inserted, err,
                   log, ct, prev, arrow_type, sql_type>>

\* conn = connect_sql_server(config)
Connect ==
    /\ pc = "CONNECT"
    /\ conn' = "open"
    /\ tx' = db
    /\ pc' = "CT_SCHEMA"
    /\ UNCHANGED <<runs, config, arrow_table, db, i, inserted, err, log, ct,
                   prev, arrow_type, sql_type>>

\* pymssql.connect raises: run() raises before the try block
ConnectFails ==
    /\ pc = "CONNECT"
    /\ pc' = "RAISED"
    /\ UNCHANGED <<runs, config, arrow_table, conn, db, tx, i, inserted, err,
                   log, ct, prev, arrow_type, sql_type>>

\* create_table_if_needed: the schema statement
CT_Schema ==
    /\ pc = "CT_SCHEMA"
    /\ tx' = EnsureSchema(tx)
    /\ ct' = [ct EXCEPT !.before = tx,
                        !.drop_existing = config.drop_existing,
                        !.schema = arrow_table.schema,
                        !.schema_created = ~tx.schema_exists]
    /\ log' = Append(log, Call("schema", <<>>, TRUE))
    /\ pc' = IF config.drop_existing THEN "CT_DROP" ELSE "CT_CREATE"
    /\ UNCHANGED <<runs, config, arrow_table, conn, db, i, inserted, err, prev,
                   arrow_type, sql_type>>

\* create_table_if_needed: if drop_existing, the drop statement
CT_Drop ==
    /\ pc = "CT_DROP"
    /\ tx' = DropIfExists(tx)
    /\ ct' = [ct EXCEPT !.dropped = (DropIfExists(tx) # tx)]
    /\ log' = Append(log, Call("drop", <<>>, TRUE))
    /\ pc' = "CT_CREATE"
    /\ UNCHANGED <<runs, config, arrow_table, conn, db, i, inserted, err, prev,
                   arrow_type, sql_type>>

\* create_table_if_needed: the columns and the create statement
CT_Create ==
    /\ pc = "CT_CREATE"
    /\ tx' = CreateIfNotExists(tx, arrow_table.schema)
    /\ ct' = [ct EXCEPT !.created =
                          (CreateIfNotExists(tx, arrow_table.schema) # tx)]
    /\ log' = Append(log, Call("create", <<>>, TRUE))
    /\ pc' = "CT_COMMIT"
    /\ UNCHANGED <<runs, config, arrow_table, conn, db, i, inserted, err, prev,
                   arrow_type, sql_type>>

\* create_table_if_needed: conn.commit() and return
CT_Commit ==
    /\ pc = "CT_COMMIT"
    /\ db' = tx
    /\ ct' = [ct EXCEPT !.ok = TRUE]
    /\ log' = Append(log, Call("commit", <<>>, TRUE))
    /\ pc' = "IG_RANGE"
    /\ UNCHANGED <<runs, config, arrow_table, conn, tx, i, inserted, err, prev,
                   arrow_type, sql_type>>

\* ingest_data up to the loop header: range(0, len(rows), batch_size) raises
\* ValueError when batch_size is 0
IG_Range ==
    /\ pc = "IG_RANGE"
    /\ inserted' = 0
    /\ i' = 0
    /\ IF config.batch_size = 0
       THEN err' = TRUE /\ pc' = "CLOSE"
       ELSE err' = err /\ pc' = "IG_LOOP"
    /\ UNCHANGED <<runs, config, arrow_table, conn, db, tx, log, ct, prev,
                   arrow_type, sql_type>>

\* the loop body up to cursor.executemany(insert_sql, batch)
IG_ExecuteMany ==
    /\ pc = "IG_LOOP"
    /\ InRange(i, Len(arrow_table.rows), config.batch_size)
    /\ Insertable(tx, arrow_table.schema)
    /\ tx' = InsertRows(tx, Batch)
    /\ log' = Append(log, Call("executemany", Batch, TRUE))
    /\ pc' = "IG_COMMIT"
    /\ UNCHANGED <<runs, config, arrow_table, conn, db, i, inserted, err, ct,
                   prev, arrow_type, sql_type>>

\* cursor.executemany raises after some rows of the batch were executed
IG_ExecuteManyFails ==
    /\ pc = "IG_LOOP"
    /\ InRange(i, Len(arrow_table.rows), config.batch_size)
    /\ \E n \in 0..(Len(Batch) - 1) :
          tx' = IF Insertable(tx, arrow_table.schema)
                THEN InsertRows(tx, SubSeq(Batch, 1, n))
                ELSE tx
    /\ log' = Append(log, Call("executemany", Batch, FALSE))
    /\ err' = TRUE
    /\ pc' = "CLOSE"
    /\ UNCHANGED <<runs, config, arrow_table, conn, db, i, inserted, ct, prev,
                   arrow_type, sql_type>>

\* as IG_Commit, without the per-batch conn.commit()
IG_Commit_NoCommit ==
    /\ pc = "IG_COMMIT"
    /\ inserted' = inserted + Len(Batch)
    /\ i' = i + config.batch_size
    /\ pc' = "IG_LOOP"
    /\ UNCHANGED <<runs, config, arrow_table, conn, db, tx, err, log, ct, prev,
                   arrow_type, sql_type>>

\* conn.commit(), inserted += len(batch), the progress line, the next i
IG_Commit ==
    /\ pc = "IG_COMMIT"
    /\ db' = tx
    /\ inserted' = inserted + Len(Batch)
    /\ i' = i + config.batch_size
    /\ log' = Append(log, Call("commit", <<>>, TRUE))
    /\ pc' = "IG_LOOP"
    /\ UNCHANGED <<runs, config, arrow_table, conn, tx, err, ct, prev,
                   arrow_type, sql_type>>

\* the range is exhausted: ingest_data returns
IG_Return ==
    /\ pc = "IG_LOOP"
    /\ ~InRange(i, Len(arrow_table.rows), config.batch_size)
    /\ pc' = "CLOSE"
    /\ UNCHANGED <<runs, config, arrow_table, conn, db, tx, i, inserted, err,
                   log, ct, prev, arrow_type, sql_type>>

\* the statement or commit that each position issues
OpAt(p) ==
    CASE p = "CT_SCHEMA" -> "schema"
      [] p = "CT_DROP" -> "drop"
      [] p = "CT_CREATE" -> "create"
      [] p = "CT_COMMIT" -> "commit"
      [] p = "IG_COMMIT" -> "commit"

\* as DestinationError, without the finally block: the connection is not closed
DestinationError_NoFinally ==
    /\ pc \in {"CT_SCHEMA", "CT_DROP", "CT_CREATE", "CT_COMMIT", "IG_COMMIT"}
    /\ log' = Append(log, Call(OpAt(pc), <<>>, FALSE))
    /\ err' = TRUE
    /\ pc' = "RAISED"
    /\ UNCHANGED <<runs, config, arrow_table, conn, db, tx, i, inserted, ct,
                   prev, arrow_type, sql_type>>

\* cursor.execute or conn.commit raises inside the try block
DestinationError ==
    /\ pc \in {"CT_SCHEMA", "CT_DROP", "CT_CREATE", "CT_COMMIT", "IG_COMMIT"}
    /\ log' = Append(log, Call(OpAt(pc), <<>>, FALSE))
    /\ err' = TRUE
    /\ pc' = "CLOSE"
    /\ UNCHANGED <<runs, config, arrow_table, conn, db, tx, i, inserted, ct,
                   prev, arrow_type, sql_type>>

\* finally: conn.close(); what was not committed is rolled back
Close ==
    /\ pc = "CLOSE"
    /\ conn' = "closed"
    /\ tx' = db
    /\ log' = Append(log, Call("close", <<>>, TRUE))
    /\ pc' = IF err THEN "RAISED" ELSE "DONE"
    /\ UNCHANGED <<runs, config, arrow_table, db, i, inserted, err, ct, prev,
                   arrow_type, sql_type>>

Next ==
    \/ Invoke
    \/ SourceRead
    \/ SourceReadFails
    \/ Connect
    \/ ConnectFails
    \/ CT_Schema
    \/ CT_Drop
    \/ CT_Create
    \/ CT_Commit
    \/ IG_Range
    \/ IG_ExecuteMany
    \/ IG_ExecuteManyFails
    \/ IG_Commit
    \/ IG_Return
    \/ DestinationError
    \/ Close

Spec == Init /\ [][Next]_vars

----------------------------------------------------------------------------
(* The type mapper applied to each type string *)

InitMap ==
    /\ pc = "MAP_INPUT"
    /\ runs = 0
    /\ config = NoConfig
    /\ arrow_table = NoTable
    /\ conn = "none"
    /\ db = Relation(FALSE, FALSE, <<>>, <<>>)
    /\ tx = db
    /\ i = 0
    /\ inserted = 0
    /\ err = FALSE
    /\ log = <<>>
    /\ ct = NoCt
    /\ prev = NoCt
    /\ arrow_type \in TypeStrings
    /\ sql_type = NoType

MapType ==
    /\ pc = "MAP_INPUT"
    /\ sql_type' = arrow_type_to_sql(arrow_type)
    /\ pc' = "MAP_DONE"
    /\ UNCHANGED <<arrow_type, runs, config, arrow_table, conn, db, tx, i,
                   inserted, err, log, ct, prev>>

NextMap == MapType

SpecMap == InitMap /\ [][NextMap]_vars

----------------------------------------------------------------------------
(* Properties *)

\* positions of the calls `op` in the log of the current run
Ops(op) == {k \in 1..Len(log) : log[k].op = op}

\* ceil(r / b) for b >= 1
Ceil(r, b) == (r + b - 1) \div b

\* the rows of the executemany calls among the first n calls, concatenated
RECURSIVE Sent(_)
Sent(n) ==
    IF n = 0 THEN <<>>
    ELSE Sent(n - 1) \o (IF log[n].op = "executemany" THEN log[n].rows ELSE <<>>)

\* the stored rows of the relation when ingest_data starts
RowsAtIngest == IF ct.created THEN <<>> ELSE ct.before.rows

\* C1: a run that completes normally with R >= 1 rows and batch size B >= 1
\* issued ceil(R/B) executemany calls, each one succeeded and was followed at
\* once by one commit, ingest_data committed ceil(R/B) times (one more commit
\* is create_table_if_needed's), and the rows-sent counter ends at R.
C1_CommitsAndRowsSent ==
    (pc = "DONE" /\ Len(arrow_table.rows) >= 1 /\ config.batch_size >= 1) =>
        /\ Cardinality(Ops("executemany"))
              = Ceil(Len(arrow_table.rows), config.batch_size)
        /\ \A k \in Ops("executemany") :
              /\ log[k].ok
              /\ k + 1 <= Len(log)
              /\ log[k + 1].op = "commit"
              /\ log[k + 1].ok
        /\ Cardinality(Ops("commit"))
              = Ceil(Len(arrow_table.rows), config.batch_size) + 1
        /\ inserted = Len(arrow_table.rows)

\* C1 witness: 3 rows in batches of 2 (a full batch and a shorter last one)
C1_Witness ==
    /\ pc = "DONE"
    /\ Len(arrow_table.rows) = 3
    /\ config.batch_size = 2
    /\ Cardinality(Ops("executemany")) = 2
    /\ inserted = 3

\* C2: once ingest_data was entered with batch_size <= 0 and is over, an
\* error is propagating, the run does not end normally, and no executemany
\* and no commit was issued by ingest_data.
C2_NonPositiveBatchSizeFailsFast ==
    (ct.ok /\ config.batch_size <= 0 /\ pc \in {"CLOSE", "DONE", "RAISED"}) =>
        /\ err
        /\ pc # "DONE"
        /\ Ops("executemany") = {}
        /\ Cardinality(Ops("commit")) = 1

\* C3: in a run whose source holds no rows, after the source read the run is
\* over (done, or raised by the read), no connection was opened and no call
\* was issued on the destination, whatever drop_existing is.
C3_EmptyShortCircuit ==
    (config.num_rows = 0 /\ pc \notin {"START", "SOURCE_READ"}) =>
        /\ pc \in {"DONE", "RAISED"}
        /\ conn = "none"
        /\ log = <<>>
        /\ tx = db

\* C3 witness: an empty source with drop_existing set, against a relation that
\* an earlier run created and filled
C3_Witness ==
    /\ pc = "DONE"
    /\ config.num_rows = 0
    /\ config.drop_existing
    /\ db.table_exists
    /\ db.rows # <<>>

\* C4: calls are issued only on an opened connection; when a run that opened
\* the connection is over, the connection is closed, close was called exactly
\* once and it is the last call; a closed connection has close as its last
\* call.
C4_ClosedOnce ==
    /\ (log # <<>> => conn # "none")
    /\ (conn = "open" => Ops("close") = {})
    /\ (conn = "closed" =>
            /\ Cardinality(Ops("close")) = 1
            /\ log[Len(log)].op = "close")
    /\ ((conn # "none" /\ pc \in {"DONE", "RAISED"}) => conn = "closed")
    /\ (conn = "none" => pc \notin {"CT_SCHEMA", "CT_DROP", "CT_CREATE",
                                    "CT_COMMIT", "IG_RANGE", "IG_LOOP",
                                    "IG_COMMIT", "CLOSE"})

\* C4 witness: the run raised because the commit of the second batch failed,
\* and the connection is closed
C4_Witness ==
    /\ pc = "RAISED"
    /\ conn = "closed"
    /\ i > 0
    /\ Len(log) >= 2
    /\ log[Len(log) - 1] = Call("commit", <<>>, FALSE)

\* C5: when a batch's executemany or commit failed, the run does not end
\* normally, the failed call is followed by nothing but close, every batch
\* was sent once, and the relation holds the rows it held when ingest_data
\* started followed by the input rows of the batches before the failed one.
C5_FailedBatchAborts ==
    (/\ ct.ok
     /\ pc \in {"CLOSE", "DONE", "RAISED"}
     /\ \E k \in 1..Len(log) : ~log[k].ok) =>
        /\ err
        /\ pc # "DONE"
        /\ \A k \in 1..Len(log) :
              ~log[k].ok => \A j \in (k + 1)..Len(log) : log[j].op = "close"
        /\ \A j, k \in Ops("executemany") : log[j].rows = log[k].rows => j = k
        /\ db.rows = RowsAtIngest \o SubSeq(arrow_table.rows, 1, i)
        /\ (pc = "RAISED" => tx = db)

\* C5 witness: the second batch's executemany failed after the first batch
\* was committed
C5_Witness ==
    /\ pc = "RAISED"
    /\ ct.ok
    /\ i > 0
    /\ Len(log) >= 2
    /\ log[Len(log) - 1].op = "executemany"
    /\ ~log[Len(log) - 1].ok
    /\ db.rows # <<>>

\* the table entry of an exact key
EntryOf(key) ==
    ICEBERG_TO_SQL_TYPE_MAP[
        CHOOSE k \in 1..Len(ICEBERG_TO_SQL_TYPE_MAP) :
            ICEBERG_TO_SQL_TYPE_MAP[k].key = key].sql

\* C6: a type string that is exactly a key of the table and reaches the
\* table loop is mapped to that key's own entry (so uint8 -> SMALLINT,
\* uint16 -> INT, uint32 -> BIGINT, float64 -> FLOAT).
C6_ExactKeyGetsOwnEntry ==
    (/\ pc = "MAP_DONE"
     /\ arrow_type \in TableKeys
     /\ ~BeforeTable(Lower(arrow_type))) =>
        sql_type = Sql(EntryOf(arrow_type))

\* C7: every list, struct or map type string is mapped to NVARCHAR(MAX).
C7_NestedIsText ==
    (pc = "MAP_DONE" /\ arrow_type \in NestedTypes) =>
        sql_type = Sql("NVARCHAR(MAX)")

\* C8: when create_table_if_needed returned normally twice in succession with
\* drop_existing false, the first time on a destination without the relation,
\* the first call created the relation and the second call created nothing
\* (neither the relation nor the schema namespace) and left the relation as it
\* found it: the columns are those of the first call's schema and the stored
\* rows are unchanged.
C8_SecondCallNoOp ==
    (/\ pc = "IG_RANGE"
     /\ ct.ok /\ ~ct.drop_existing
     /\ prev.ok /\ ~prev.drop_existing /\ ~prev.before.table_exists) =>
        /\ prev.created
        /\ ~ct.created
        /\ ~ct.dropped
        /\ ~ct.schema_created
        /\ ct.before.table_exists
        /\ db = ct.before
        /\ Len(db.columns) = Len(prev.schema)
        /\ \A k \in 1..Len(prev.schema) :
              db.columns[k].name = prev.schema[k].name

\* C8 witness: the second call is given another schema, and the relation
\* holds rows of the first run
C8_Witness ==
    /\ pc = "IG_RANGE"
    /\ ct.ok /\ ~ct.drop_existing
    /\ prev.ok /\ ~prev.drop_existing /\ ~prev.before.table_exists
    /\ ct.schema # prev.schema
    /\ db.rows # <<>>

\* C9: when create_table_if_needed returned normally with drop_existing true
\* on a relation that existed, it issued exactly schema check, drop, create,
\* commit, in that order; the drop and the create both took effect; the
\* relation exists, holds no rows, and has one column per source field in
\* source order with the mapped type and the field's NULL / NOT NULL.
C9_DropThenRecreate ==
    (/\ pc = "IG_RANGE"
     /\ ct.ok /\ config.drop_existing
     /\ ct.before.table_exists) =>
        /\ log = << Call("schema", <<>>, TRUE), Call("drop", <<>>, TRUE),
                    Call("create", <<>>, TRUE), Call("commit", <<>>, TRUE) >>
        /\ ct.dropped
        /\ ct.created
        /\ db.table_exists
        /\ db.rows = <<>>
        /\ Len(db.columns) = Len(arrow_table.schema)
        /\ \A k \in 1..Len(arrow_table.schema) :
              /\ db.columns[k].name = arrow_table.schema[k].name
              /\ db.columns[k].sql_type
                    = arrow_type_to_sql(arrow_table.schema[k].type)
              /\ db.columns[k].nullable
                    = (IF arrow_table.schema[k].nullable
                       THEN "NULL" ELSE "NOT NULL")

\* C9 witness: the relation existed with the very same columns, and held rows
C9_Witness ==
    /\ pc = "IG_RANGE"
    /\ ct.ok /\ config.drop_existing
    /\ ct.before.table_exists
    /\ ct.before.rows # <<>>
    /\ ct.before.columns = db.columns

\* C10 (state part): with batch size B >= 1, every batch sent has 1..B rows,
\* a batch shorter than B is the one that completes the input, the batches
\* sent so far concatenate to a prefix of the input (to the whole input when
\* the run is done), a batch is sent only after the one before it was
\* committed, at most one batch is uncommitted, and the rows-sent counter is
\* the number of input rows committed, never more than the total.
C10_State ==
    (runs >= 1 /\ config.batch_size >= 1) =>
        /\ \A k \in Ops("executemany") :
              /\ Len(log[k].rows) \in 1..config.batch_size
              /\ Len(log[k].rows) < config.batch_size
                    => Sent(k) = arrow_table.rows
              /\ Sent(k) = SubSeq(arrow_table.rows, 1, Len(Sent(k)))
              /\ Sent(k - 1) # <<>>
                    => log[k - 1] = Call("commit", <<>>, TRUE)
        /\ (pc = "DONE" => Sent(Len(log)) = arrow_table.rows)
        /\ (pc = "IG_COMMIT" =>
                /\ tx.rows = db.rows \o log[Len(log)].rows
                /\ log[Len(log)].rows = Batch)
        /\ (pc # "IG_COMMIT" /\ conn = "open" /\ ct.ok /\ ~err => tx.rows = db.rows)
        /\ Len(tx.rows) - Len(db.rows) <= config.batch_size
        /\ inserted \in 0..Len(arrow_table.rows)
        /\ (pc \in {"IG_LOOP", "IG_COMMIT"} =>
                db.rows = RowsAtIngest \o SubSeq(arrow_table.rows, 1, inserted))

\* C10: the state part holds always, and within a run the rows-sent counter
\* never decreases.
C10_BatchPartition ==
    /\ []C10_State
    /\ [][runs' = runs => inserted' >= inserted]_vars

\* C10 witness: 3 rows in batches of 2, the shorter last batch sent and not
\* yet committed
C10_Witness ==
    /\ pc = "IG_COMMIT"
    /\ config.batch_size = 2
    /\ Len(arrow_table.rows) = 3
    /\ i = 2
    /\ inserted = 2
    /\ Len(log[Len(log)].rows) = 1

====
